---- MODULE Spec2Model ----
(***************************************************************************)
(* Model of perplexity-ask/index.ts: the call-tool request handler of the  *)
(* Perplexity MCP server and the chat-completion call it makes.            *)
(*                                                                         *)
(* JavaScript values are records [t, s, a]: t is the type tag, s the text  *)
(* of a primitive, a the elements of an array.  Strings are TLA+ strings,  *)
(* except the environment variable, which is a sequence of characters so   *)
(* that split(',') and trim() are computed character by character.         *)
(***************************************************************************)
EXTENDS Naturals, Sequences, FiniteSets, TLC

VARIABLES
  DOMAIN_FILTER_ENV,  \* process.env.PERPLEXITY_SEARCH_DOMAIN_FILTER, read once
  pc,                 \* position of the handler: idle, fetch, text, json, done
  request,            \* request.params of the call being handled
  httpCount,          \* number of fetch() calls issued for this request
  body,               \* the body of the HTTP request issued
  response,           \* the Response fetch() resolved with
  data,               \* the value response.json() resolved with
  outcome,            \* what the network did: how fetch(), text() or json() ended
  result,             \* the envelope the handler returned
  via                 \* how the handler ended: return statement or catch block

vars == <<DOMAIN_FILTER_ENV, pc, request, httpCount, body, response, data, outcome,
          result, via>>

----------------------------------------------------------------------------
(* JavaScript values *)

Undefined == [t |-> "undefined", s |-> "", a |-> <<>>]
Null == [t |-> "null", s |-> "", a |-> <<>>]
Str(s) == [t |-> "string", s |-> s, a |-> <<>>]
Num(s) == [t |-> "number", s |-> s, a |-> <<>>]
Bool(s) == [t |-> "boolean", s |-> s, a |-> <<>>]
Obj(s) == [t |-> "object", s |-> s, a |-> <<>>]
Arr(a) == [t |-> "array", s |-> "", a |-> a]

\* JavaScript truthiness (ToBoolean)
Truthy(v) ==
  CASE v.t = "undefined" -> FALSE
    [] v.t = "null" -> FALSE
    [] v.t = "boolean" -> v.s = "true"
    [] v.t = "number" -> v.s # "0"
    [] v.t = "string" -> v.s # ""
    [] OTHER -> TRUE

IsArray(v) == v.t = "array"

IsString(v) == v.t = "string"

\* left ?? right
Nullish(left, right) == IF left.t \in {"undefined", "null"} THEN right ELSE left

\* String(v) for the primitives a template literal or += may meet
ToStringJS(v) ==
  CASE v.t = "undefined" -> "undefined"
    [] v.t = "null" -> "null"
    [] OTHER -> v.s

Digit(d) ==
  CASE d = 0 -> "0" [] d = 1 -> "1" [] d = 2 -> "2" [] d = 3 -> "3" [] d = 4 -> "4"
    [] d = 5 -> "5" [] d = 6 -> "6" [] d = 7 -> "7" [] d = 8 -> "8" [] d = 9 -> "9"

\* decimal text of a non-negative integer, as a template literal prints it
RECURSIVE Dec(_)
Dec(n) == IF n < 10 THEN Digit(n) ELSE Dec(n \div 10) \o Digit(n % 10)

----------------------------------------------------------------------------
(* DOMAIN_FILTER_ENV.split(',').map(d => d.trim()) on character sequences *)

IsSpace(c) == c \in {" ", "\t", "\n"}

\* String.prototype.split(','): the pieces between commas, empty ones kept
RECURSIVE SplitFrom(_, _, _)
SplitFrom(chars, i, cur) ==
  IF i > Len(chars) THEN <<cur>>
  ELSE IF chars[i] = "," THEN <<cur>> \o SplitFrom(chars, i + 1, <<>>)
  ELSE SplitFrom(chars, i + 1, Append(cur, chars[i]))

Split(chars) == SplitFrom(chars, 1, <<>>)

RECURSIVE TrimStart(_)
TrimStart(chars) ==
  IF chars # <<>> /\ IsSpace(Head(chars)) THEN TrimStart(Tail(chars)) ELSE chars

RECURSIVE TrimEnd(_)
TrimEnd(chars) ==
  IF chars # <<>> /\ IsSpace(chars[Len(chars)])
  THEN TrimEnd(SubSeq(chars, 1, Len(chars) - 1)) ELSE chars

\* String.prototype.trim()
Trim(chars) == TrimEnd(TrimStart(chars))

\* the string a character sequence spells
RECURSIVE Join(_)
Join(chars) == IF chars = <<>> THEN "" ELSE Head(chars) \o Join(Tail(chars))

EnvSplit(chars) ==
  LET parts == Split(chars)
  IN [i \in 1..Len(parts) |-> Str(Join(Trim(parts[i])))]

\* if (DOMAIN_FILTER_ENV): unset and the empty string are both falsy
EnvTruthy(env) == env.set /\ env.chars # <<>>

----------------------------------------------------------------------------
(* performChatCompletion, up to the fetch() call *)

MaxDomains == 10

NoBody == [model |-> Undefined, messages |-> Undefined,
           hasFilter |-> FALSE, search_domain_filter |-> Undefined]

\* outcomes of the synchronous part of the handler
Throw(msg) == [kind |-> "throw", text |-> msg, body |-> NoBody]

ReturnText(text) == [kind |-> "return", text |-> text, body |-> NoBody]

Fetch(b) == [kind |-> "fetch", text |-> "", body |-> b]

\* performChatCompletion without the check of lines 186-188
performChatCompletionNoLimit(messages, model, search_domain_filter) ==
  IF Truthy(search_domain_filter) /\ Len(search_domain_filter.a) > 0
  THEN Fetch([model |-> model, messages |-> messages, hasFilter |-> TRUE,
              search_domain_filter |-> search_domain_filter])
  ELSE Fetch([model |-> model, messages |-> messages, hasFilter |-> FALSE,
              search_domain_filter |-> Undefined])

\* lines 173-190: default parameter, body construction, the 10-domain limit
performChatCompletion(messages, model, search_domain_filter) ==
  LET m == IF model = Undefined THEN Str("sonar-pro") ELSE model
  IN IF Truthy(search_domain_filter) /\ Len(search_domain_filter.a) > 0
     THEN IF Len(search_domain_filter.a) > MaxDomains
          THEN Throw("search_domain_filter cannot contain more than 10 domains.")
          ELSE Fetch([model |-> m, messages |-> messages, hasFilter |-> TRUE,
                      search_domain_filter |-> search_domain_filter])
     ELSE Fetch([model |-> m, messages |-> messages, hasFilter |-> FALSE,
                 search_domain_filter |-> Undefined])

----------------------------------------------------------------------------
(* The CallToolRequestSchema handler, up to the first await *)

\* ResolveFilter with the precedence reversed: the environment wins over the argument
ResolveFilterEnvFirst(args, env) ==
  IF EnvTruthy(env) THEN Arr(EnvSplit(env.chars))
  ELSE IF args.search_domain_filter = Undefined THEN Arr(<<>>)
  ELSE args.search_domain_filter

\* lines 276-285: user input > environment variable > default
ResolveFilter(args, env) ==
  IF args.search_domain_filter = Undefined
  THEN IF EnvTruthy(env) THEN Arr(EnvSplit(env.chars)) ELSE Arr(<<>>)
  ELSE args.search_domain_filter

\* line 287: the condition under which the filter is rejected
FilterInvalid(f) ==
  Truthy(f) /\ (~IsArray(f) \/ ~(\A i \in 1..Len(f.a) : IsString(f.a[i])))

\* AskModels also letting a reasoning model through
AskModelsWide == {"sonar", "sonar-pro", "sonar-reasoning"}

AskModels == {"sonar", "sonar-pro"}

ReasonModels == {"sonar-reasoning", "sonar-reasoning-pro"}

\* lines 300-303 and 344-347: typeof model !== "string" || !allowed.includes(model)
ModelInvalid(model, allowed) == ~IsString(model) \/ model.s \notin allowed

\* lines 292-317
CaseAsk(args, f) ==
  IF ~IsArray(args.messages)
  THEN Throw("Invalid arguments for perplexity_ask: 'messages' must be an array")
  ELSE LET model == Nullish(args.model, Str("sonar-pro"))
       IN IF ModelInvalid(model, AskModels)
          THEN Throw("Invalid model for perplexity_ask. Must be 'sonar' or 'sonar-pro'.")
          ELSE performChatCompletion(args.messages, model, f)

\* CaseResearch without the messages check of lines 319-323
CaseResearchNoCheck(args, f) ==
  performChatCompletion(args.messages, Str("sonar-deep-research"), f)

\* lines 318-335
CaseResearch(args, f) ==
  IF ~IsArray(args.messages)
  THEN Throw("Invalid arguments for perplexity_research: 'messages' must be an array")
  ELSE performChatCompletion(args.messages, Str("sonar-deep-research"), f)

\* lines 336-361
CaseReason(args, f) ==
  IF ~IsArray(args.messages)
  THEN Throw("Invalid arguments for perplexity_reason: 'messages' must be an array")
  ELSE LET model == Nullish(args.model, Str("sonar-reasoning-pro"))
       IN IF ModelInvalid(model, ReasonModels)
          THEN Throw("Invalid model for perplexity_reason. Must be 'sonar-reasoning' or 'sonar-reasoning-pro'.")
          ELSE performChatCompletion(args.messages, model, f)

\* UnknownTool raising instead of returning
UnknownToolThrows(name) == Throw("Unknown tool: " \o name)

\* lines 364-367: the default case returns its envelope without throwing
UnknownTool(name) == ReturnText("Unknown tool: " \o name)

\* lines 291-368: switch (name)
Dispatch(name, args, f) ==
  CASE name = "perplexity_ask" -> CaseAsk(args, f)
    [] name = "perplexity_research" -> CaseResearch(args, f)
    [] name = "perplexity_reason" -> CaseReason(args, f)
    [] OTHER -> UnknownTool(name)

\* Handler without the check of lines 272-274: reading a property of the missing
\* arguments raises a TypeError
HandlerNoArgsCheck(req, env) ==
  IF ~req.hasArgs
  THEN Throw("Cannot read properties of undefined (reading 'search_domain_filter')")
  ELSE LET f == ResolveFilter(req.args, env)
       IN IF FilterInvalid(f)
          THEN Throw("Invalid arguments for " \o req.name
                     \o ": search_domain_filter must be an array of strings")
          ELSE Dispatch(req.name, req.args, f)

\* lines 270-368: the try block until the handler first suspends
Handler(req, env) ==
  IF ~req.hasArgs THEN Throw("No arguments provided")
  ELSE LET f == ResolveFilter(req.args, env)
       IN IF FilterInvalid(f)
          THEN Throw("Invalid arguments for " \o req.name
                     \o ": search_domain_filter must be an array of strings")
          ELSE Dispatch(req.name, req.args, f)

\* the envelope of a return statement (lines 313-316, 331-334, 357-360, 364-367)
Envelope(text, isError) ==
  [content |-> <<[type |-> "text", text |-> text]>>, isError |-> isError]

\* CatchEnvelope without the "Error: " prefix of line 375
CatchEnvelopeNoPrefix(message) == Envelope(Str(message), TRUE)

\* lines 369-382: the catch block
CatchEnvelope(message) == Envelope(Str("Error: " \o message), TRUE)

----------------------------------------------------------------------------
(* performChatCompletion, after response.json() *)

\* line 228: data.choices[0].message.content, a TypeError where a link is missing
ExtractContent(d) ==
  CASE d.shape = "null" ->
         [threw |-> TRUE, message |-> "Cannot read properties of null (reading 'choices')",
          value |-> Undefined]
    [] d.shape = "noChoices" ->
         [threw |-> TRUE, message |-> "Cannot read properties of undefined (reading '0')",
          value |-> Undefined]
    [] d.shape = "emptyChoices" ->
         [threw |-> TRUE, message |-> "Cannot read properties of undefined (reading 'message')",
          value |-> Undefined]
    [] d.shape = "noMessage" ->
         [threw |-> TRUE, message |-> "Cannot read properties of undefined (reading 'content')",
          value |-> Undefined]
    [] d.shape = "noContent" -> [threw |-> FALSE, message |-> "", value |-> Undefined]
    [] OTHER -> [threw |-> FALSE, message |-> "", value |-> d.content]

\* ForEachCitation printing the 0-based index
RECURSIVE ForEachCitationZeroBased(_, _, _)
ForEachCitationZeroBased(messageContent, citations, index) ==
  IF index >= Len(citations) THEN messageContent
  ELSE ForEachCitationZeroBased(
         messageContent \o "[" \o Dec(index) \o "] "
           \o ToStringJS(citations[index + 1]) \o "\n",
         citations, index + 1)

\* lines 233-235: forEach over the citations, index counted from 0
RECURSIVE ForEachCitation(_, _, _)
ForEachCitation(messageContent, citations, index) ==
  IF index >= Len(citations) THEN messageContent
  ELSE ForEachCitation(
         messageContent \o "[" \o Dec(index + 1) \o "] "
           \o ToStringJS(citations[index + 1]) \o "\n",
         citations, index + 1)

\* lines 231-236
AppendCitations(messageContent, citations) ==
  IF Truthy(citations) /\ IsArray(citations) /\ Len(citations.a) > 0
  THEN Str(ForEachCitation(ToStringJS(messageContent) \o "\n\nCitations:\n", citations.a, 0))
  ELSE messageContent

----------------------------------------------------------------------------
(* Inputs *)

MaxFilterLen == 2
MaxCitations == 2

Repeat(x, n) == [i \in 1..n |-> x]

SeqsUpTo(S, n) == UNION {[1..k -> S] : k \in 0..n}

ToolNames == {"perplexity_ask", "perplexity_research", "perplexity_reason"}

Names == ToolNames \cup {"perplexity_search"}

Domains == {Str("a.com"), Str("-b.com")}

FilterArgs ==
  {Undefined, Null, Num("0"), Num("5"), Str(""), Str("a.com"), Bool("false")}
    \cup {Arr(a) : a \in SeqsUpTo(Domains, MaxFilterLen)}
    \cup {Arr(<<Num("1")>>), Arr(<<Str("a.com"), Null>>),
          Arr(Repeat(Str("a.com"), MaxDomains)), Arr(Repeat(Str("a.com"), MaxDomains + 1))}

MessagesArgs == {Undefined, Str("hello"), Arr(<<Obj("user: hello")>>)}

ModelArgs ==
  {Undefined, Null, Num("4"), Str("gpt-4"), Str("sonar"), Str("sonar-pro"),
   Str("sonar-reasoning"), Str("sonar-reasoning-pro")}

NoArgs == [messages |-> Undefined, model |-> Undefined, search_domain_filter |-> Undefined]

Requests ==
  {[name |-> n, hasArgs |-> FALSE, args |-> NoArgs] : n \in Names}
    \cup {[name |-> n, hasArgs |-> TRUE,
           args |-> [messages |-> m, model |-> md, search_domain_filter |-> f]] :
          n \in Names, m \in MessagesArgs, md \in ModelArgs, f \in FilterArgs}

NoRequest == [name |-> "", hasArgs |-> FALSE, args |-> NoArgs]

\* eleven comma-separated entries: "x,x,x,x,x,x,x,x,x,x,x"
ElevenEntries == [i \in 1..(2 * MaxDomains + 1) |-> IF i % 2 = 1 THEN "x" ELSE ","]

EnvValues ==
  {[set |-> FALSE, chars |-> <<>>]}
    \cup {[set |-> TRUE, chars |-> c] :
          c \in {<<>>, <<"x">>, <<" ", "x", " ">>, <<"x", ",", "y">>,
                 <<"x", ",", " ", "y">>, <<",">>, <<" ">>, ElevenEntries}}

Statuses == {<<200, "OK">>, <<401, "Unauthorized">>, <<500, "Internal Server Error">>}

ErrorTexts == {"", "denied"}

FetchErrors == {"TypeError: fetch failed"}

JsonErrors == {"SyntaxError: Unexpected end of JSON input"}

Citations == {Str("http://a"), Str("http://b")}

CitationValues ==
  {Undefined, Null, Str("http://a")}
    \cup {Arr(a) : a \in SeqsUpTo(Citations, MaxCitations)}
    \cup {Arr(Repeat(Str("http://a"), MaxDomains + 1))}

Contents == {Str("Hi"), Str("")}

Datas ==
  {[shape |-> sh, content |-> Undefined, citations |-> Undefined] :
     sh \in {"null", "noChoices", "emptyChoices", "noMessage", "noContent"}}
    \cup {[shape |-> "noContent", content |-> Undefined,
           citations |-> Arr(<<Str("http://a")>>)]}
    \cup {[shape |-> "ok", content |-> c, citations |-> l] :
          c \in Contents, l \in CitationValues}

NoData == [shape |-> "none", content |-> Undefined, citations |-> Undefined]

NoResponse == [status |-> 0, statusText |-> ""]

NoOutcome == [kind |-> "none", detail |-> ""]

NoResult == [content |-> <<>>, isError |-> FALSE]

----------------------------------------------------------------------------
(* The state machine *)

Init ==
  /\ DOMAIN_FILTER_ENV \in EnvValues
  /\ pc = "idle"
  /\ request = NoRequest
  /\ httpCount = 0
  /\ body = NoBody
  /\ response = NoResponse
  /\ data = NoData
  /\ outcome = NoOutcome
  /\ result = NoResult
  /\ via = "none"

\* the handler ends in its catch block
Caught(message) ==
  /\ pc' = "done"
  /\ result' = CatchEnvelope(message)
  /\ via' = "catch"

\* the transport delivers a call-tool request; the handler runs to its first await
CallTool(req) ==
  /\ pc = "idle"
  /\ request' = req
  /\ LET o == Handler(req, DOMAIN_FILTER_ENV)
     IN CASE o.kind = "throw" ->
               /\ Caught(o.text)
               /\ UNCHANGED <<httpCount, body>>
          [] o.kind = "return" ->
               /\ pc' = "done"
               /\ result' = Envelope(Str(o.text), TRUE)
               /\ via' = "return"
               /\ UNCHANGED <<httpCount, body>>
          [] OTHER ->
               /\ pc' = "fetch"
               /\ httpCount' = httpCount + 1
               /\ body' = o.body
               /\ UNCHANGED <<result, via>>
  /\ UNCHANGED <<DOMAIN_FILTER_ENV, response, data, outcome>>

\* lines 202-204: fetch() rejects
FetchRejects(error) ==
  /\ pc = "fetch"
  /\ outcome' = [kind |-> "network", detail |-> error]
  /\ Caught("Network error while calling Perplexity API: " \o error)
  /\ UNCHANGED <<DOMAIN_FILTER_ENV, request, httpCount, body, response, data>>

\* lines 194-207: fetch() resolves; response.ok is status in 200..299
FetchResolves(status, statusText) ==
  /\ pc = "fetch"
  /\ response' = [status |-> status, statusText |-> statusText]
  /\ pc' = IF status >= 200 /\ status <= 299 THEN "json" ELSE "text"
  /\ UNCHANGED <<DOMAIN_FILTER_ENV, request, httpCount, body, data, outcome, result, via>>

\* lines 214-216
StatusError(errorText) ==
  "Perplexity API error: " \o Dec(response.status) \o " " \o response.statusText
    \o "\n" \o errorText

\* lines 208-216: response.text() resolves
TextResolves(errorText) ==
  /\ pc = "text"
  /\ outcome' = [kind |-> "status", detail |-> errorText]
  /\ Caught(StatusError(errorText))
  /\ UNCHANGED <<DOMAIN_FILTER_ENV, request, httpCount, body, response, data>>

\* lines 211-216: response.text() rejects
TextRejects ==
  /\ pc = "text"
  /\ outcome' = [kind |-> "statusUnread", detail |-> ""]
  /\ Caught(StatusError("Unable to parse error response"))
  /\ UNCHANGED <<DOMAIN_FILTER_ENV, request, httpCount, body, response, data>>

\* lines 223-225: response.json() rejects
JsonRejects(jsonError) ==
  /\ pc = "json"
  /\ outcome' = [kind |-> "json", detail |-> jsonError]
  /\ Caught("Failed to parse JSON response from Perplexity API: " \o jsonError)
  /\ UNCHANGED <<DOMAIN_FILTER_ENV, request, httpCount, body, response, data>>

\* lines 222-239 and the handler's return: response.json() resolves
JsonResolves(d) ==
  /\ pc = "json"
  /\ data' = d
  /\ outcome' = [kind |-> "parsed", detail |-> ""]
  /\ LET c == ExtractContent(d)
     IN IF c.threw
        THEN Caught(c.message)
        ELSE /\ pc' = "done"
             /\ result' = Envelope(AppendCitations(c.value, d.citations), FALSE)
             /\ via' = "return"
  /\ UNCHANGED <<DOMAIN_FILTER_ENV, request, httpCount, body, response>>

\* the transport sends the envelope; the server waits for the next request
Respond ==
  /\ pc = "done"
  /\ pc' = "idle"
  /\ request' = NoRequest
  /\ httpCount' = 0
  /\ body' = NoBody
  /\ response' = NoResponse
  /\ data' = NoData
  /\ outcome' = NoOutcome
  /\ result' = NoResult
  /\ via' = "none"
  /\ UNCHANGED DOMAIN_FILTER_ENV

Next ==
  \/ \E req \in Requests : CallTool(req)
  \/ \E e \in FetchErrors : FetchRejects(e)
  \/ \E st \in Statuses : FetchResolves(st[1], st[2])
  \/ \E t \in ErrorTexts : TextResolves(t)
  \/ TextRejects
  \/ \E e \in JsonErrors : JsonRejects(e)
  \/ \E d \in Datas : JsonResolves(d)
  \/ Respond

Spec == Init /\ [][Next]_vars

----------------------------------------------------------------------------
(* Properties *)

Done == pc = "done"

\* the text of the envelope returned
ResultText == result.content[1].text

ErrorEnvelope(message) ==
  [content |-> <<[type |-> "text", text |-> Str("Error: " \o message)]>>, isError |-> TRUE]

\* the messages of the failures raised before any HTTP request, for a tool name
ValidationMessages(name) ==
  {"No arguments provided",
   "Invalid arguments for " \o name \o ": search_domain_filter must be an array of strings",
   "Invalid arguments for " \o name \o ": 'messages' must be an array",
   "Invalid model for perplexity_ask. Must be 'sonar' or 'sonar-pro'.",
   "Invalid model for perplexity_reason. Must be 'sonar-reasoning' or 'sonar-reasoning-pro'.",
   "search_domain_filter cannot contain more than 10 domains."}

\* the value is an array whose elements are all strings
IsStringArray(v) == v.t = "array" /\ \A i \in 1..Len(v.a) : v.a[i].t = "string"

\* the search_domain_filter check of line 287 lets the request through: no argument
\* (the environment list is always an array of strings), a falsy argument, or an
\* array of strings
PassesFilterCheck(req) ==
  \/ req.args.search_domain_filter = Undefined
  \/ req.args.search_domain_filter \in {Null, Num("0"), Str(""), Bool("false")}
  \/ IsStringArray(req.args.search_domain_filter)

\* C1: every call-tool request ends in exactly one envelope
\* {content: [{type: "text", text}], isError} and no exception escapes the handler;
\* a failed HTTP call (connection failure, non-2xx status, unparsable body), a
\* property-access failure on the parsed body and every validation failure give
\* isError true and the text "Error: " followed by the failure's message, which for
\* a non-2xx response holds the status code; only the unknown-tool envelope is an
\* error without that prefix.
C1_EveryCallEndsInOneEnvelope ==
  /\ pc \in {"idle", "fetch", "text", "json", "done"}
  /\ ~Done => result = NoResult /\ via = "none"
  /\ Done =>
       /\ DOMAIN result = {"content", "isError"}
       /\ Len(result.content) = 1
       /\ DOMAIN result.content[1] = {"type", "text"}
       /\ result.content[1].type = "text"
       /\ result.isError \in BOOLEAN
       /\ CASE outcome.kind = "network" ->
                 result = ErrorEnvelope(
                   "Network error while calling Perplexity API: " \o outcome.detail)
            [] outcome.kind = "status" ->
                 result = ErrorEnvelope(
                   "Perplexity API error: " \o ToString(response.status) \o " "
                     \o response.statusText \o "\n" \o outcome.detail)
            [] outcome.kind = "statusUnread" ->
                 result = ErrorEnvelope(
                   "Perplexity API error: " \o ToString(response.status) \o " "
                     \o response.statusText \o "\nUnable to parse error response")
            [] outcome.kind = "json" ->
                 result = ErrorEnvelope(
                   "Failed to parse JSON response from Perplexity API: " \o outcome.detail)
            [] outcome.kind = "parsed" ->
                 /\ data.shape = "null" =>
                      result = ErrorEnvelope("Cannot read properties of null (reading 'choices')")
                 /\ data.shape = "noChoices" =>
                      result = ErrorEnvelope("Cannot read properties of undefined (reading '0')")
                 /\ data.shape = "emptyChoices" =>
                      result = ErrorEnvelope("Cannot read properties of undefined (reading 'message')")
                 /\ data.shape = "noMessage" =>
                      result = ErrorEnvelope("Cannot read properties of undefined (reading 'content')")
            [] OTHER ->
                 /\ result.isError
                 /\ \/ /\ request.name \notin ToolNames
                       /\ ResultText = Str("Unknown tool: " \o request.name)
                    \/ \E m \in ValidationMessages(request.name) : result = ErrorEnvelope(m)

\* C1 witness: a 401 response was turned into an error envelope holding "401"
C1_Witness ==
  /\ Done
  /\ response.status = 401
  /\ outcome = [kind |-> "status", detail |-> "denied"]
  /\ result.isError
  /\ ResultText = Str("Error: Perplexity API error: 401 Unauthorized\ndenied")

\* C2 as stated: every request for an unregistered tool name ends in exactly
\* {isError: true, text: "Unknown tool: <name>"}, by a normal return, with no HTTP
\* request.
C2_Original ==
  (Done /\ request.name \notin ToolNames) =>
    /\ result = [content |-> <<[type |-> "text",
                               text |-> Str("Unknown tool: " \o request.name)]>>,
                 isError |-> TRUE]
    /\ via = "return"
    /\ httpCount = 0

\* C2 amended: a request for an unregistered tool name never issues an HTTP request;
\* when it has arguments and its search_domain_filter passes the filter check it ends
\* in exactly {isError: true, text: "Unknown tool: <name>"} by a normal return;
\* without arguments it ends in "Error: No arguments provided" and with a rejected
\* filter in the search_domain_filter error, both through the catch block.
C2_UnknownToolAfterValidation ==
  (Done /\ request.name \notin ToolNames) =>
    /\ httpCount = 0
    /\ (request.hasArgs /\ PassesFilterCheck(request)) =>
         /\ result = [content |-> <<[type |-> "text",
                                    text |-> Str("Unknown tool: " \o request.name)]>>,
                      isError |-> TRUE]
         /\ via = "return"
    /\ ~request.hasArgs =>
         result = ErrorEnvelope("No arguments provided") /\ via = "catch"
    /\ (request.hasArgs /\ ~PassesFilterCheck(request)) =>
         /\ result = ErrorEnvelope("Invalid arguments for " \o request.name
                       \o ": search_domain_filter must be an array of strings")
         /\ via = "catch"

\* C2 witness: an unregistered tool called with arguments got the plain envelope
C2_Witness ==
  /\ Done
  /\ request.name = "perplexity_search"
  /\ request.hasArgs
  /\ via = "return"
  /\ ResultText = Str("Unknown tool: perplexity_search")

\* C8: a request without arguments, whatever its tool name, ends in isError true
\* with the text exactly "Error: No arguments provided", and issues no HTTP request.
C8_NoArgumentsProvided ==
  /\ (request # NoRequest /\ ~request.hasArgs) => httpCount = 0 /\ Done
  /\ (Done /\ ~request.hasArgs) =>
       /\ result.isError = TRUE
       /\ Len(result.content) = 1
       /\ ResultText = Str("Error: No arguments provided")

\* C8 witness: an unregistered tool called without arguments
C8_Witness ==
  /\ Done
  /\ ~request.hasArgs
  /\ request.name = "perplexity_search"
  /\ ResultText = Str("Error: No arguments provided")

\* an HTTP request has been issued for the request being handled
Issued == httpCount > 0

\* the list the body must carry for each value of the environment variable that
\* leads to an HTTP request: its comma-separated entries, each trimmed, in order
TrimmedEnvList(chars) ==
  CASE chars = <<"x">> -> <<Str("x")>>
    [] chars = <<" ", "x", " ">> -> <<Str("x")>>
    [] chars = <<"x", ",", "y">> -> <<Str("x"), Str("y")>>
    [] chars = <<"x", ",", " ", "y">> -> <<Str("x"), Str("y")>>
    [] chars = <<",">> -> <<Str(""), Str("")>>
    [] chars = <<" ">> -> <<Str("")>>

\* C3 as stated, for arguments that are lists of strings: whenever the request
\* carries a search_domain_filter argument the body carries that argument; with no
\* argument and the environment default set the body carries the comma-split,
\* trimmed environment list; with neither the body has no search_domain_filter key.
C3_Original ==
  (Issued /\ ( \/ request.args.search_domain_filter = Undefined
               \/ IsStringArray(request.args.search_domain_filter) )) =>
    IF request.args.search_domain_filter # Undefined
    THEN body.hasFilter /\ body.search_domain_filter = request.args.search_domain_filter
    ELSE IF DOMAIN_FILTER_ENV.set /\ DOMAIN_FILTER_ENV.chars # <<>>
         THEN /\ body.hasFilter
              /\ body.search_domain_filter = Arr(TrimmedEnvList(DOMAIN_FILTER_ENV.chars))
         ELSE ~body.hasFilter

\* C3 amended: in every HTTP request issued, when the request carries a
\* search_domain_filter argument the environment default is never used: the body
\* carries that argument if it is a non-empty list and has no search_domain_filter
\* key otherwise (an empty list, or a falsy value such as null); when the request
\* carries no such argument and the environment default is a non-empty string, the
\* body carries the comma-split, whitespace-trimmed environment list in order; when
\* there is no argument and the environment default is unset or empty, the body has
\* no search_domain_filter key.
C3_FilterPrecedence ==
  Issued =>
    IF request.args.search_domain_filter # Undefined
    THEN IF request.args.search_domain_filter.t = "array"
            /\ request.args.search_domain_filter.a # <<>>
         THEN /\ body.hasFilter
              /\ body.search_domain_filter = request.args.search_domain_filter
         ELSE ~body.hasFilter /\ body.search_domain_filter = Undefined
    ELSE IF DOMAIN_FILTER_ENV.set /\ DOMAIN_FILTER_ENV.chars # <<>>
         THEN /\ body.hasFilter
              /\ body.search_domain_filter = Arr(TrimmedEnvList(DOMAIN_FILTER_ENV.chars))
         ELSE ~body.hasFilter /\ body.search_domain_filter = Undefined

\* C3 witness: no argument, the environment holds "x, y", the body carries ["x","y"]
C3_Witness ==
  /\ Issued
  /\ request.args.search_domain_filter = Undefined
  /\ DOMAIN_FILTER_ENV = [set |-> TRUE, chars |-> <<"x", ",", " ", "y">>]
  /\ body.hasFilter
  /\ body.search_domain_filter = Arr(<<Str("x"), Str("y")>>)

\* the number of entries of the filter the request resolves to
ResolvedFilterLen(req, env) ==
  IF req.args.search_domain_filter = Undefined
  THEN IF env.set /\ env.chars # <<>>
       THEN Cardinality({i \in 1..Len(env.chars) : env.chars[i] = ","}) + 1
       ELSE 0
  ELSE Len(req.args.search_domain_filter.a)

\* the allowed model values of a tool, and whether the request's model is refused
ModelRefused(req) ==
  /\ req.args.model \notin {Undefined, Null}
  /\ \/ req.name = "perplexity_ask" /\ req.args.model \notin {Str("sonar"), Str("sonar-pro")}
     \/ /\ req.name = "perplexity_reason"
        /\ req.args.model \notin {Str("sonar-reasoning"), Str("sonar-reasoning-pro")}

\* some validation step of the handler or of performChatCompletion rejects the request
FailsValidation(req, env) ==
  \/ ~req.hasArgs
  \/ ~PassesFilterCheck(req)
  \/ ResolvedFilterLen(req, env) > 10
  \/ req.name \notin ToolNames
  \/ req.args.messages.t # "array"
  \/ ModelRefused(req)

RECURSIVE CitationLines(_, _)
CitationLines(L, i) ==
  IF i > Len(L) THEN ""
  ELSE "[" \o ToString(i) \o "] " \o L[i].s \o "\n" \o CitationLines(L, i + 1)

\* C6: for a successful response with content C and citations L, the text of the
\* success envelope is exactly C when L is absent or empty, and otherwise C followed
\* by "\n\nCitations:\n" and one line "[<1-based index>] <citation>\n" per citation,
\* in the original order, nothing else added.
C6_CitationsAppended ==
  (Done /\ outcome.kind = "parsed" /\ data.shape = "ok"
     /\ data.citations.t \in {"undefined", "array"}) =>
    /\ result.isError = FALSE
    /\ Len(result.content) = 1
    /\ result.content[1].type = "text"
    /\ ResultText =
         (IF data.citations.t = "undefined" \/ data.citations.a = <<>>
          THEN data.content
          ELSE Str(data.content.s \o "\n\nCitations:\n" \o CitationLines(data.citations.a, 1)))

\* C6 witness: content "Hi" with citations http://a, http://b
C6_Witness ==
  /\ Done
  /\ data.shape = "ok"
  /\ data.content = Str("Hi")
  /\ data.citations = Arr(<<Str("http://a"), Str("http://b")>>)
  /\ ResultText = Str("Hi\n\nCitations:\n[1] http://a\n[2] http://b\n")

\* C7 as stated: whenever the messages argument is not a sequence, whatever the other
\* arguments hold, the result is an error envelope whose text is
\* "Error: Invalid arguments for <tool>: 'messages' must be an array".
C7_Original ==
  (Done /\ request.hasArgs /\ request.name \in ToolNames
     /\ request.args.messages.t # "array") =>
    /\ result.isError
    /\ ResultText = Str("Error: Invalid arguments for " \o request.name
                          \o ": 'messages' must be an array")

\* C7 amended: a request with arguments whose messages argument is not a sequence
\* always ends in an error envelope (isError true) and no HTTP request; for a
\* registered tool its text is "Error: Invalid arguments for <tool>: 'messages' must be
\* an array" when the search_domain_filter passes the filter check, which runs first,
\* and the search_domain_filter error naming the tool when that check rejects it; for
\* an unregistered tool whose filter passes, the text is "Unknown tool: <name>".
C7_MessagesMustBeArray ==
  (Done /\ request.hasArgs /\ request.args.messages.t # "array") =>
    /\ result.isError
    /\ httpCount = 0
    /\ ResultText =
         (IF ~PassesFilterCheck(request)
          THEN Str("Error: Invalid arguments for " \o request.name
                     \o ": search_domain_filter must be an array of strings")
          ELSE IF request.name \in ToolNames
               THEN Str("Error: Invalid arguments for " \o request.name
                          \o ": 'messages' must be an array")
               ELSE Str("Unknown tool: " \o request.name))

\* C7 witness: perplexity_research with a string for messages and eleven domains
C7_Witness ==
  /\ Done
  /\ request.name = "perplexity_research"
  /\ request.args.messages = Str("hello")
  /\ Len(request.args.search_domain_filter.a) = 11
  /\ ResultText =
       Str("Error: Invalid arguments for perplexity_research: 'messages' must be an array")

\* C9, for a registered tool called with a sequence of messages and a string, number
\* or boolean as search_domain_filter: a request with arguments whose resolved
\* search_domain_filter is present but is not a sequence of strings ends in
\* "Error: Invalid arguments for <name>: search_domain_filter must be an array of
\* strings" and issues no HTTP request.
C9_Claim ==
  (request.hasArgs /\ request.name \in ToolNames /\ request.args.messages.t = "array"
     /\ request.args.search_domain_filter.t \in {"string", "number", "boolean"}) =>
    /\ httpCount = 0
    /\ Done
    /\ result.isError
    /\ ResultText = Str("Error: Invalid arguments for " \o request.name
                          \o ": search_domain_filter must be an array of strings")

\* C10: a 2xx response whose parsed body lacks choices[0].message.content (choices
\* absent or empty, message absent, or content absent) ends in an error envelope,
\* never in a success envelope.
C10_Claim ==
  (Done /\ outcome.kind = "parsed"
     /\ data.shape \in {"noChoices", "emptyChoices", "noMessage", "noContent"}) =>
    result.isError

====
